---- MODULE Spec2Model ----
(***************************************************************************)
(* The batch DVH export pipeline (BatchProcessDVH2CSV.start), the shared   *)
(* dataset store it reads and clears, and the cumulative CSV writer        *)
(* (BatchProcessDVH2CSV.dvh2csv).                                          *)
(*                                                                         *)
(* Numbers: a dose-bin value or a volume is an integer count of            *)
(* thousandths; a cell of the written file is an integer count of          *)
(* hundredths (the frame is rounded to 2 digits before it is written).     *)
(***************************************************************************)
EXTENDS Integers, Sequences, FiniteSets, TLC

VARIABLES
    store,          \* PatientDictContainer().dataset: key -> dataset handle
    pc,             \* per job: position in __init__/start
    ready,          \* per job: self.ready
    interrupt_flag, \* per job: the threading.Event given to the job
    progress,       \* per job: what progress_callback.emit received, in order
    dataset_rtss,   \* per job: the local dataset_rtss of start() (whose it is)
    raw_dvh,        \* per job: the local raw_dvh of start()
    state,          \* per job: how start() ended
    ret,            \* per job: what start() returned
    raised,         \* per job: the exception start() let through, or "none"
    calc_exc,       \* per job: the exception raised inside the try block, or "none"
    trace,          \* per job: the calls start() made, in order
    output_dir,     \* does self.output_path exist as a directory
    csv_dir,        \* does <output_path>/CSV exist as a directory
    tar_file,       \* the target file: [exists, lines]
    calls,          \* every dvh2csv call so far, in order
    file_list,      \* natural_sort: the list it is given
    sort_result,    \* natural_sort: what it returned, or that it raised
    directory,      \* get_datasets: the entries of the directory at path
    glob_list,      \* get_datasets: glob.glob(path + '/*'), in the order it gave
    dcm_files,      \* get_datasets: the sorted paths
    pos,            \* get_datasets: the position of the for loop in dcm_files
    i_ct,           \* get_datasets: i, the key of the next CT image
    read_data_dict, \* get_datasets: key -> dataset
    file_names_dict,\* get_datasets: key -> path
    read_calls,     \* get_datasets: the paths given to pydicom.dcmread, in order
    disc_pc,        \* get_datasets: "idle", "loop", "done" or "raised"
    own_files,      \* per job: the patient_files it was constructed with
    job_patient_id, \* per job: patient_id, as start() read it for the export
    serial          \* history: no job was constructed while another job was
                    \* between its construction and the end of its start()

sortVars == <<file_list, sort_result>>

discVars == <<directory, glob_list, dcm_files, pos, i_ct, read_data_dict,
              file_names_dict, read_calls, disc_pc>>

vars == <<store, pc, ready, interrupt_flag, progress, dataset_rtss, raw_dvh,
          state, ret, raised, calc_exc, trace, output_dir, csv_dir, tar_file, calls,
          sortVars, discVars, own_files, job_patient_id, serial>>

jobVars == <<store, pc, ready, interrupt_flag, progress, dataset_rtss, raw_dvh,
             state, ret, raised, calc_exc, trace, own_files, job_patient_id, serial>>

----------------------------------------------------------------------------
(* Bounds of the model *)

\* ROI records in one DVH mapping given to dvh2csv
MaxRois == 2
\* ROI records in the mapping the DVH collaborator returns to a job
MaxJobRois == 1
\* direct dvh2csv calls in SpecCsv
MaxAppends == 2
\* names in the list given to natural_sort
MaxNames == 3
\* entries in the directory given to get_datasets
MaxFiles == 3

Jobs == {"A", "B"}

----------------------------------------------------------------------------
(* The inputs *)

required_classes == {"rtss", "rtdose"}

\* The patient_files a job can be given: the classes found in them, the
\* PatientID of their structure set (when it has one).
PatientFiles ==
    { [id |-> "ID1", classes |-> {"rtss", "rtdose"}, hasPatientID |-> TRUE],
      [id |-> "ID2", classes |-> {"rtss", "rtdose"}, hasPatientID |-> TRUE],
      [id |-> "ID3", classes |-> {"rtss"},           hasPatientID |-> TRUE],
      [id |-> "ID4", classes |-> {"rtss", "rtdose"}, hasPatientID |-> FALSE] }

\* dvh.relative_volume.counts of n bins: it falls from 100 % by 1.005 % a bin.
Counts(n) == [i \in 1..n |-> 100000 - 1005 * (i - 1)]

\* The lengths of the bin sequences the DVH collaborator returns here.
CountsLens == {0, 5, 11}

RoiName(k) == "ROI" \o ToString(k)

\* One DVH record of the collaborator's result: dvh.name, dvh.volume,
\* dvh.relative_volume.counts.
DvhRecord(k, n) == [name |-> RoiName(k), volume |-> 12345, counts |-> Counts(n)]

\* The mappings {ROINumber: DVH} of at most max ROIs, in iteration order.
DvhDicts(max) ==
    UNION { { [k \in 1..n |-> DvhRecord(k, f[k])] : f \in [1..n -> CountsLens] }
            : n \in 0..max }

\* The patient IDs dvh2csv is called with on its own.
PatientIds == {"ID1", "ID2"}

----------------------------------------------------------------------------
(* dvh2csv: the cumulative CSV writer *)

\* range(0, n, 10), as a sequence of 0-based positions
Range10(n) == [k \in 1..((n + 9) \div 10) |-> 10 * (k - 1)]

\* the row built for one ROI: patient ID, name, volume, every 10th bin
DvhRoiList(dvh, patient_id) ==
    LET r == Range10(Len(dvh.counts))
    IN  <<patient_id, dvh.name, dvh.volume>>
            \o [k \in 1..Len(r) |-> dvh.counts[r[k] + 1]]

\* dvh_csv_list after the loop over dict_dvh
DvhCsvList(dict_dvh, patient_id) ==
    [k \in 1..Len(dict_dvh) |-> DvhRoiList(dict_dvh[k], patient_id)]

\* max_roi_dose after the first k ROIs: the running maximum of the sampled
\* positions, starting from 0
RECURSIVE MaxRoiDose(_, _)
MaxRoiDose(dict_dvh, k) ==
    IF k = 0 THEN 0
    ELSE LET m == MaxRoiDose(dict_dvh, k - 1)
             r == Range10(Len(dict_dvh[k].counts))
         IN  IF Len(r) > 0 /\ r[Len(r)] > m THEN r[Len(r)] ELSE m

\* csv_header: the three fixed columns, then one label for every 10th
\* position up to max_roi_dose
CsvHeader(max_roi_dose) ==
    <<"Patient ID", "ROI", "Volume (mL)">>
        \o [k \in 1..(max_roi_dose \div 10 + 1) |->
                ToString(10 * (k - 1)) \o "cGy"]

\* a missing cell of a data frame
NaN == -1

RECURSIVE Longest(_, _)
Longest(data, k) ==
    IF k = 0 THEN 0
    ELSE LET m == Longest(data, k - 1)
         IN  IF Len(data[k]) > m THEN Len(data[k]) ELSE m

\* pd.DataFrame(data, columns=...) refuses rows of another width than the
\* columns (the rows are first padded to the longest of them)
DataFrameRaises(data, columns) ==
    Len(data) > 0 /\ Longest(data, Len(data)) # Len(columns)

\* pd.DataFrame(data, columns=...): short rows are padded with missing cells
DataFrame(data, columns) ==
    [r \in 1..Len(data) |->
        [c \in 1..Len(columns) |->
            IF c <= Len(data[r]) THEN data[r][c] ELSE NaN]]

\* rounding of thousandths to 2 digits (hundredths), half to even
Round2(x) ==
    LET q == x \div 10
        r == x % 10
    IN  IF r < 5 THEN q
        ELSE IF r > 5 THEN q + 1
        ELSE IF q % 2 = 0 THEN q ELSE q + 1

\* .round(2) on the numeric columns (all but patient ID and ROI name)
RoundFrame(frame) ==
    [r \in 1..Len(frame) |->
        [c \in 1..Len(frame[r]) |->
            IF c <= 2 \/ frame[r][c] = NaN THEN frame[r][c]
            ELSE Round2(frame[r][c])]]

\* .fillna(0.0)
FillNa(frame) ==
    [r \in 1..Len(frame) |->
        [c \in 1..Len(frame[r]) |->
            IF c > 2 /\ frame[r][c] = NaN THEN 0 ELSE frame[r][c]]]

\* a header written by every call
CreateHeaderAlways(file) == TRUE

\* create_header = not os.path.isfile(tar_path)
CreateHeader(file) == ~file.exists

\* a line of the file: the index cell (patient ID column), then the fields
HeaderLine(columns) ==
    [kind |-> "header", index |-> columns[1], fields |-> Tail(columns)]

RowLine(row) ==
    [kind |-> "row", index |-> row[1], fields |-> Tail(row)]

\* to_csv in mode 'w': the file is written anew
ToCsvTruncating(frame, columns, file, header) ==
    [exists |-> TRUE,
     lines  |-> (IF header THEN <<HeaderLine(columns)>> ELSE <<>>)
                 \o [r \in 1..Len(frame) |-> RowLine(frame[r])]]

\* set_index('Patient ID') and to_csv(tar_path, mode='a', header=...)
ToCsv(frame, columns, file, header) ==
    [exists |-> TRUE,
     lines  |-> file.lines
                 \o (IF header THEN <<HeaderLine(columns)>> ELSE <<>>)
                 \o [r \in 1..Len(frame) |-> RowLine(frame[r])]]

\* dvh2csv(dict_dvh, path, csv_name, patient_id): the exception it raises
\* ("none" when it returns) and the target file afterwards
Dvh2csvResult(dict_dvh, patient_id, file, dir) ==
    LET create_header == CreateHeader(file)
        dvh_csv_list  == DvhCsvList(dict_dvh, patient_id)
        csv_header    == CsvHeader(MaxRoiDose(dict_dvh, Len(dict_dvh)))
    IN  IF DataFrameRaises(dvh_csv_list, csv_header)
        THEN [raised |-> "ValueError", file |-> file]
        ELSE IF ~dir
        THEN [raised |-> "OSError", file |-> file]
        ELSE [raised |-> "none",
              file   |-> ToCsv(FillNa(RoundFrame(DataFrame(dvh_csv_list,
                                                           csv_header))),
                               csv_header, file, create_header)]

\* the record kept of one dvh2csv call
CallRecord(dict_dvh, patient_id, file, res) ==
    [patient_id |-> patient_id,
     rois |-> [k \in 1..Len(dict_dvh) |-> dict_dvh[k].name],
     found |-> file.exists, before |-> Len(file.lines),
     raised |-> res.raised]

----------------------------------------------------------------------------
(* natural_sort: names are sequences of characters *)

AsciiDigits == {"0", "1", "2"}

\* ARABIC-INDIC DIGIT THREE: a digit for str.isdigit and for int, not
\* for the pattern [0-9]
ArabicThree == "U+0663"

\* the code point of a character
Ord(c) ==
    CASE c = "." -> 46 [] c = "/" -> 47
      [] c = "0" -> 48 [] c = "1" -> 49 [] c = "2" -> 50
      [] c = "C" -> 67 [] c = "D" -> 68 [] c = "P" -> 80 [] c = "R" -> 82
      [] c = "S" -> 83 [] c = "T" -> 84
      [] c = "c" -> 99 [] c = "d" -> 100 [] c = "e" -> 101 [] c = "m" -> 109
      [] c = "n" -> 110 [] c = "o" -> 111 [] c = "p" -> 112 [] c = "r" -> 114
      [] c = "s" -> 115 [] c = "t" -> 116 [] c = "x" -> 120
      [] c = ArabicThree -> 1635

\* str.lower and str.upper, a character at a time
LowerChar(c) ==
    CASE c = "C" -> "c" [] c = "D" -> "d" [] c = "P" -> "p" [] c = "R" -> "r"
      [] c = "S" -> "s" [] c = "T" -> "t" [] OTHER -> c

UpperChar(c) ==
    CASE c = "c" -> "C" [] c = "d" -> "D" [] c = "p" -> "P" [] c = "r" -> "R"
      [] c = "s" -> "S" [] c = "t" -> "T" [] c = "e" -> "E" [] c = "m" -> "M"
      [] c = "n" -> "N" [] c = "o" -> "O" [] c = "x" -> "X" [] OTHER -> c

Lower(text) == [k \in 1..Len(text) |-> LowerChar(text[k])]

Upper(text) == [k \in 1..Len(text) |-> UpperChar(text[k])]

\* re.split('([0-9]+)', key) from character k on: cur is the run being read,
\* digits tells whether it is a run of [0-9], acc the runs already closed
RECURSIVE ReSplitFrom(_, _, _, _, _)
ReSplitFrom(key, k, cur, digits, acc) ==
    IF k > Len(key)
    THEN IF digits THEN acc \o <<cur, <<>> >> ELSE Append(acc, cur)
    ELSE IF (key[k] \in AsciiDigits) = digits
    THEN ReSplitFrom(key, k + 1, Append(cur, key[k]), digits, acc)
    ELSE ReSplitFrom(key, k + 1, <<key[k]>>, ~digits, Append(acc, cur))

\* re.split('([0-9]+)', key): a text run, then a digit run and a text run
\* for every run of [0-9]
ReSplit(key) == ReSplitFrom(key, 1, <<>>, FALSE, <<>>)

\* text.isdigit()
IsDigit(text) ==
    /\ Len(text) > 0
    /\ \A k \in 1..Len(text) : text[k] \in AsciiDigits \cup {ArabicThree}

DigitValue(c) == IF c = ArabicThree THEN 3 ELSE Ord(c) - 48

\* int(text)
RECURSIVE IntOf(_)
IntOf(text) ==
    IF Len(text) = 0 THEN 0
    ELSE 10 * IntOf(SubSeq(text, 1, Len(text) - 1)) + DigitValue(text[Len(text)])

\* convert = lambda text: int(text) if text.isdigit() else text.lower()
Convert(text) ==
    IF IsDigit(text)
    THEN [int |-> TRUE, n |-> IntOf(text), s |-> <<>>]
    ELSE [int |-> FALSE, n |-> 0, s |-> Lower(text)]

\* alphanum_key = lambda key: [convert(c) for c in re.split(...)]
AlphanumKey(key) ==
    LET runs == ReSplit(key) IN [k \in 1..Len(runs) |-> Convert(runs[k])]

\* a < b for two str, by code points
RECURSIVE StrLess(_, _)
StrLess(a, b) ==
    IF Len(b) = 0 THEN FALSE
    ELSE IF Len(a) = 0 THEN TRUE
    ELSE IF a[1] # b[1] THEN Ord(a[1]) < Ord(b[1])
    ELSE StrLess(Tail(a), Tail(b))

\* x < y for two elements of a key: "True", "False", or "TypeError" for an
\* int and a str
ElemLess(x, y) ==
    IF x.int # y.int THEN "TypeError"
    ELSE IF x.int THEN (IF x.n < y.n THEN "True" ELSE "False")
    ELSE IF StrLess(x.s, y.s) THEN "True" ELSE "False"

\* ka < kb for two keys (lists): the first differing elements decide, a
\* strict prefix is less
RECURSIVE KeyLess(_, _)
KeyLess(ka, kb) ==
    IF Len(kb) = 0 THEN "False"
    ELSE IF Len(ka) = 0 THEN "True"
    ELSE IF ka[1] # kb[1] THEN ElemLess(ka[1], kb[1])
    ELSE KeyLess(Tail(ka), Tail(kb))

\* the comparison sorted(file_list, key=alphanum_key) makes of two names
Less(a, b) == KeyLess(AlphanumKey(a), AlphanumKey(b))

\* sorted(): the end of the run that starts the list (count_run), from the
\* i-th element on; 0 when a comparison raises
RECURSIVE RunEnd(_, _, _)
RunEnd(a, i, descending) ==
    IF i > Len(a) THEN Len(a)
    ELSE LET c == Less(a[i], a[i - 1])
         IN  IF c = "TypeError" THEN 0
             ELSE IF (c = "True") = descending
             THEN RunEnd(a, i + 1, descending)
             ELSE i - 1

Reverse(a) == [k \in 1..Len(a) |-> a[Len(a) + 1 - k]]

\* sorted(): where the pivot goes among a[l..r-1] (binarysort); 0 when a
\* comparison raises
RECURSIVE Bisect(_, _, _, _)
Bisect(a, pivot, l, r) ==
    IF l >= r THEN l
    ELSE LET p == l + (r - l) \div 2
             c == Less(pivot, a[p])
         IN  IF c = "TypeError" THEN 0
             ELSE IF c = "True" THEN Bisect(a, pivot, l, p)
             ELSE Bisect(a, pivot, p + 1, r)

\* sorted(): binary insertion of a[idx], a[idx+1], ... into the sorted
\* a[1..idx-1]
RECURSIVE BinarySort(_, _)
BinarySort(a, idx) ==
    IF idx > Len(a) THEN [raised |-> "none", list |-> a]
    ELSE LET at == Bisect(a, a[idx], 1, idx)
         IN  IF at = 0 THEN [raised |-> "TypeError", list |-> <<>>]
             ELSE BinarySort(SubSeq(a, 1, at - 1) \o <<a[idx]>>
                                 \o SubSeq(a, at, idx - 1)
                                 \o SubSeq(a, idx + 1, Len(a)),
                             idx + 1)

\* sorted(file_list, key=alphanum_key), for a list shorter than 64: the
\* first run is found (and reversed when it descends), the rest is inserted
Sorted(a) ==
    IF Len(a) < 2 THEN [raised |-> "none", list |-> a]
    ELSE LET first == Less(a[2], a[1])
             run   == RunEnd(a, 3, first = "True")
         IN  IF first = "TypeError" \/ run = 0
             THEN [raised |-> "TypeError", list |-> <<>>]
             ELSE BinarySort(IF first = "True"
                             THEN Reverse(SubSeq(a, 1, run))
                                      \o SubSeq(a, run + 1, Len(a))
                             ELSE a,
                             run + 1)

\* natural_sort(file_list): the exception it raises and the list it returns
NaturalSort(file_list_) == Sorted(file_list_)

\* The names natural_sort is given here.
SortNames ==
    { <<"C", "T", "1", ".", "d", "c", "m">>,
      <<"C", "T", "1", "0", ".", "d", "c", "m">>,
      <<"C", "T", "2", ".", "d", "c", "m">>,
      <<"c", "t", "1", ".", "d", "c", "m">>,
      <<"C", "T", "0", "1", ".", "d", "c", "m">>,
      <<"C", "T">>,
      <<"1">>,
      <<ArabicThree>> }

\* the lists of at most max different names
NameLists(names, max) ==
    UNION { { f \in [1..n -> names] :
                \A x, y \in 1..n : x # y => f[x] # f[y] }
            : n \in 0..max }

----------------------------------------------------------------------------
(* The shared dataset store and the construction of a job *)

\* the store after clear(): no dataset under any key
Cleared == [id |-> "", classes |-> {}, hasPatientID |-> FALSE]

\* load(index_by_key): the store holds the index of these files
Load(patient_files) == patient_files

\* load_images(patient_files, required_classes): the value of self.ready,
\* and the stores it can leave. It populates the store from the files; when
\* a required class is missing it may have given up before it did.
LoadImagesReady(patient_files) == required_classes \subseteq patient_files.classes

LoadImagesStores(patient_files, old) ==
    IF LoadImagesReady(patient_files)
    THEN {Load(patient_files)}
    ELSE {old, Load(patient_files)}

----------------------------------------------------------------------------
(* The state *)

Unset == "unset"

\* the job is not constructed yet
NoFiles == [id |-> "", classes |-> {}, hasPatientID |-> FALSE]

\* natural_sort has not been called
NotSorted == [raised |-> "unset", list |-> <<>>]

InitSort ==
    /\ file_list = <<>>
    /\ sort_result = NotSorted

InitJobs ==
    /\ store = Cleared
    /\ pc = [j \in Jobs |-> "none"]
    /\ ready = [j \in Jobs |-> FALSE]
    /\ interrupt_flag = [j \in Jobs |-> FALSE]
    /\ progress = [j \in Jobs |-> <<>>]
    /\ dataset_rtss = [j \in Jobs |-> ""]
    /\ raw_dvh = [j \in Jobs |-> <<>>]
    /\ state = [j \in Jobs |-> "Constructed"]
    /\ ret = [j \in Jobs |-> Unset]
    /\ raised = [j \in Jobs |-> "none"]
    /\ calc_exc = [j \in Jobs |-> "none"]
    /\ trace = [j \in Jobs |-> <<>>]
    /\ output_dir \in BOOLEAN
    /\ csv_dir \in BOOLEAN
    /\ csv_dir => output_dir
    /\ tar_file = [exists |-> FALSE, lines |-> <<>>]
    /\ calls = <<>>
    /\ own_files = [j \in Jobs |-> NoFiles]
    /\ job_patient_id = [j \in Jobs |-> Unset]
    /\ serial = TRUE

\* get_datasets has not been called
InitDisc ==
    /\ directory = {}
    /\ glob_list = <<>>
    /\ dcm_files = <<>>
    /\ pos = 0
    /\ i_ct = 0
    /\ read_data_dict = <<>>
    /\ file_names_dict = <<>>
    /\ read_calls = <<>>
    /\ disc_pc = "idle"

Init == InitJobs /\ InitSort /\ InitDisc

\* start() ends: its terminal state, its return value, the exception it
\* lets through, the calls it made since the last step
End(j, st, r, exc, called) ==
    /\ pc' = [pc EXCEPT ![j] = "done"]
    /\ state' = [state EXCEPT ![j] = st]
    /\ ret' = [ret EXCEPT ![j] = r]
    /\ raised' = [raised EXCEPT ![j] = exc]
    /\ trace' = [trace EXCEPT ![j] = @ \o called]
    /\ raw_dvh' = [raw_dvh EXCEPT ![j] = <<>>]

\* the two reports in the other order
Report6040 == << <<"Calculating DVH...", 60>>, <<"Checking dataset...", 40>> >>

\* the two reports before the computation, the one before the export
Report4060 == << <<"Checking dataset...", 40>>, <<"Calculating DVH...", 60>> >>

Report90 == << <<"Exporting DVH to CSV...", 90>> >>

----------------------------------------------------------------------------
(* The operations *)

\* __init__(progress_callback, interrupt_flag, patient_files, output_path)
Construct(j, patient_files) ==
    /\ pc[j] = "none"
    /\ ready' = [ready EXCEPT ![j] = LoadImagesReady(patient_files)]
    /\ store' \in LoadImagesStores(patient_files, store)
    /\ pc' = [pc EXCEPT ![j] = "constructed"]
    /\ own_files' = [own_files EXCEPT ![j] = patient_files]
    /\ serial' = (serial /\ \A k \in Jobs \ {j} : pc[k] \in {"none", "done"})
    /\ UNCHANGED <<interrupt_flag, progress, dataset_rtss, raw_dvh, state, ret,
                   raised, calc_exc, trace, output_dir, csv_dir, tar_file,
                   calls, sortVars, discVars, job_patient_id>>

\* the external controller sets the job's cancellation flag
SetFlag(j) ==
    /\ pc[j] # "done"
    /\ ~interrupt_flag[j]
    /\ interrupt_flag' = [interrupt_flag EXCEPT ![j] = TRUE]
    /\ UNCHANGED <<store, pc, ready, progress, dataset_rtss, raw_dvh, state,
                   ret, raised, calc_exc, trace, output_dir, csv_dir, tar_file,
                   calls, sortVars, discVars,
                   own_files, job_patient_id, serial>>

\* interrupt_flag.is_set(), as the trace records it
IsSet(j) == IF interrupt_flag[j] THEN "is_set=True" ELSE "is_set=False"

\* the first checkpoint left out
Checkpoint1Never(j) == FALSE

\* the first checkpoint: if self.interrupt_flag.is_set()
Checkpoint1Stops(j) == interrupt_flag[j]

\* the readiness gate left out
IsReadyAlways(j) == TRUE

\* the readiness gate: if not self.ready
IsReady(j) == ready[j]

\* the second checkpoint left out
Checkpoint2Never(j) == FALSE

\* the second checkpoint: if self.interrupt_flag.is_set()
Checkpoint2Stops(j) == interrupt_flag[j]

\* no except clause
CaughtNothing(exc) == FALSE

\* except TypeError
Caught(exc) == exc = "TypeError"

\* the job is cancelled at a checkpoint: the store is cleared, start()
\* returns False
Cancel(j) ==
    /\ store' = Cleared
    /\ End(j, "Cancelled", "False", "none", <<IsSet(j), "clear">>)

\* start(), from its call to the reads of the store before the computation
StartCheckpoint1(j) ==
    /\ pc[j] = "constructed"
    /\ IF Checkpoint1Stops(j)
       THEN /\ Cancel(j)
            /\ UNCHANGED <<progress, dataset_rtss>>
       ELSE IF ~IsReady(j)
       THEN /\ End(j, "NotReady", "None", "none", <<IsSet(j)>>)
            /\ UNCHANGED <<store, progress, dataset_rtss>>
       ELSE /\ progress' = [progress EXCEPT ![j] = @ \o Report4060]
            /\ IF required_classes \subseteq store.classes
               THEN /\ dataset_rtss' = [dataset_rtss EXCEPT ![j] = store.id]
                    /\ pc' = [pc EXCEPT ![j] = "calc"]
                    /\ state' = [state EXCEPT ![j] = "Running"]
                    /\ trace' = [trace EXCEPT ![j] = @ \o <<IsSet(j)>>]
                    /\ UNCHANGED <<store, raw_dvh, ret, raised>>
               ELSE /\ End(j, "Raised", Unset, "KeyError", <<IsSet(j)>>)
                    /\ UNCHANGED <<store, dataset_rtss>>
    /\ UNCHANGED <<ready, interrupt_flag, calc_exc, output_dir, csv_dir,
                   tar_file, calls, sortVars, discVars,
                   own_files, job_patient_id, serial>>

\* what the try block can do: the call that fails and its exception, or
\* the mapping calc_dvhs returns
CalcOutcomes ==
    { [at |-> a, exc |-> e, dvh |-> <<>>] :
        a \in {"get_thickness_dict", "calc_dvhs"},
        e \in {"TypeError", "ValueError"} }
    \cup { [at |-> "calc_dvhs", exc |-> "none", dvh |-> d] :
             d \in DvhDicts(MaxJobRois) }

CalledBy(o) ==
    IF o.at = "get_thickness_dict" THEN <<"get_thickness_dict">>
    ELSE <<"get_thickness_dict", "calc_dvhs">>

\* start(), the try block: the thickness map and the DVH computation
CalcDvhs(j, o) ==
    /\ pc[j] = "calc"
    /\ calc_exc' = [calc_exc EXCEPT ![j] = o.exc]
    /\ IF o.exc = "none"
       THEN /\ raw_dvh' = [raw_dvh EXCEPT ![j] = o.dvh]
            /\ pc' = [pc EXCEPT ![j] = "checkpoint2"]
            /\ trace' = [trace EXCEPT ![j] = @ \o CalledBy(o)]
            /\ UNCHANGED <<state, ret, raised>>
       ELSE IF Caught(o.exc)
       THEN End(j, "Failed", "None", "none", CalledBy(o))
       ELSE End(j, "Raised", Unset, o.exc, CalledBy(o))
    /\ UNCHANGED <<store, ready, interrupt_flag, progress, dataset_rtss,
                   output_dir, csv_dir, tar_file, calls, sortVars, discVars,
                   own_files, job_patient_id, serial>>

\* start(), the second check of the flag
Checkpoint2(j) ==
    /\ pc[j] = "checkpoint2"
    /\ IF Checkpoint2Stops(j)
       THEN Cancel(j)
       ELSE /\ pc' = [pc EXCEPT ![j] = "export"]
            /\ trace' = [trace EXCEPT ![j] = @ \o <<IsSet(j)>>]
            /\ UNCHANGED <<store, raw_dvh, state, ret, raised>>
    /\ UNCHANGED <<ready, interrupt_flag, progress, dataset_rtss, calc_exc,
                   output_dir, csv_dir, tar_file, calls, sortVars, discVars,
                   own_files, job_patient_id, serial>>

\* patient_id as a copy taken when the job was constructed
PatientIdOwn(j) == own_files[j].id

\* patient_id = self.patient_dict_container.dataset['rtss'].PatientID
PatientId(j) == store.id

ExportSteps(j) ==
    /\ pc[j] = "export"
    /\ progress' = [progress EXCEPT ![j] = @ \o Report90]
    /\ IF "rtss" \notin store.classes
       THEN /\ End(j, "Raised", Unset, "KeyError", <<>>)
            /\ UNCHANGED <<csv_dir, tar_file, calls, job_patient_id>>
       ELSE IF ~store.hasPatientID
       THEN /\ End(j, "Raised", Unset, "AttributeError", <<>>)
            /\ UNCHANGED <<csv_dir, tar_file, calls, job_patient_id>>
       ELSE /\ job_patient_id' = [job_patient_id EXCEPT ![j] = PatientId(j)]
            /\ IF ~csv_dir /\ ~output_dir
               THEN /\ End(j, "Raised", Unset, "FileNotFoundError", <<"mkdir">>)
                    /\ UNCHANGED <<csv_dir, tar_file, calls>>
               ELSE LET res == Dvh2csvResult(raw_dvh[j], PatientId(j), tar_file,
                                            TRUE)
                        called == (IF csv_dir THEN <<>> ELSE <<"mkdir">>)
                                      \o <<"dvh2csv">>
                    IN  /\ csv_dir' = TRUE
                        /\ tar_file' = res.file
                        /\ calls' = Append(calls,
                                           CallRecord(raw_dvh[j], PatientId(j),
                                                      tar_file, res))
                        /\ IF res.raised = "none"
                           THEN End(j, "Completed", "None", "none", called)
                           ELSE End(j, "Raised", Unset, res.raised, called)
    /\ UNCHANGED <<store, ready, interrupt_flag, dataset_rtss, calc_exc,
                   output_dir, sortVars, discVars, own_files, serial>>

\* a third checkpoint before the export
ExportChecksFlag(j) ==
    IF interrupt_flag[j]
    THEN /\ pc[j] = "export"
         /\ Cancel(j)
         /\ UNCHANGED <<ready, interrupt_flag, progress, dataset_rtss, calc_exc,
                        output_dir, csv_dir, tar_file, calls, sortVars, discVars,
                        own_files, job_patient_id, serial>>
    ELSE ExportSteps(j)

\* start(), from the last report to the end: the patient ID is read from
\* the store, the CSV directory is made, dvh2csv appends; the flag is not
\* read again
Export(j) == ExportSteps(j)

Next ==
    \/ \E j \in Jobs, pf \in PatientFiles : Construct(j, pf)
    \/ \E j \in Jobs : SetFlag(j)
    \/ \E j \in Jobs : StartCheckpoint1(j)
    \/ \E j \in Jobs, o \in CalcOutcomes : CalcDvhs(j, o)
    \/ \E j \in Jobs : Checkpoint2(j)
    \/ \E j \in Jobs : Export(j)

Spec == Init /\ [][Next]_vars

\* dvh2csv called on its own, on the CSV directory
Dvh2csv(dict_dvh, patient_id) ==
    /\ Len(calls) < MaxAppends
    /\ LET res == Dvh2csvResult(dict_dvh, patient_id, tar_file, csv_dir)
       IN  /\ tar_file' = res.file
           /\ calls' = Append(calls, CallRecord(dict_dvh, patient_id,
                                                tar_file, res))
    /\ UNCHANGED <<jobVars, output_dir, csv_dir, sortVars, discVars>>

NextCsv == \E d \in DvhDicts(MaxRois), p \in PatientIds : Dvh2csv(d, p)

SpecCsv == Init /\ [][NextCsv]_vars

\* natural_sort(file_list) is called
NaturalSortCall ==
    /\ sort_result = NotSorted
    /\ sort_result' = NaturalSort(file_list)
    /\ UNCHANGED <<jobVars, output_dir, csv_dir, tar_file, calls, file_list,
                   discVars>>

\* natural_sort is given any list of at most MaxNames different names
InitSortLists ==
    /\ InitJobs
    /\ file_list \in NameLists(SortNames, MaxNames)
    /\ sort_result = NotSorted
    /\ InitDisc

SpecSort == InitSortLists /\ [][NaturalSortCall]_vars

----------------------------------------------------------------------------
(* get_datasets(path) *)

\* an entry of the directory: its name, whether os.path.isfile holds of it,
\* whether pydicom.dcmread can read it, and the Modality it then reports
Entry(name, isfile, readable, modality) ==
    [name |-> name, isfile |-> isfile, readable |-> readable,
     Modality |-> modality]

DotDcm == <<".", "d", "c", "m">>

\* The entries a directory is made of here.
Catalog ==
    { Entry(<<"C", "T", "1">> \o DotDcm, TRUE, TRUE, "CT"),
      Entry(<<"C", "T", "1", "0">> \o DotDcm, TRUE, TRUE, "CT"),
      Entry(<<"C", "T", "2">> \o DotDcm, TRUE, TRUE, "CT"),
      Entry(<<"c", "t", "0">> \o DotDcm, TRUE, TRUE, "CT"),
      Entry(<<"C", "T", "0">> \o DotDcm, TRUE, FALSE, "CT"),
      Entry(<<"R", "S", "0">> \o DotDcm, TRUE, FALSE, "RTSTRUCT"),
      Entry(<<"R", "S", "1">> \o DotDcm, TRUE, TRUE, "RTSTRUCT"),
      Entry(<<"R", "S", "2">> \o DotDcm, TRUE, TRUE, "RTSTRUCT"),
      Entry(<<"R", "D", "1">> \o DotDcm, TRUE, TRUE, "RTDOSE"),
      Entry(<<"R", "D", "2">> \o DotDcm, TRUE, TRUE, "CT"),
      Entry(<<"R", "P", "1">> \o DotDcm, TRUE, TRUE, "RTPLAN"),
      Entry(<<"R", "T", "1">> \o DotDcm, TRUE, TRUE, "MR"),
      Entry(<<"n", "o", "t", "e", "s", ".", "t", "x", "t">>, TRUE, TRUE, "CT"),
      Entry(<<"C", "T", "d">>, FALSE, FALSE, "CT"),
      Entry(<<"C", "T", "1", ArabicThree>>, TRUE, TRUE, "CT") }

\* the path get_datasets is given
DirPath == <<"/", "p", "1">>

\* path + '/*' matched by glob: the path of an entry
PathOf(e) == DirPath \o <<"/">> \o e.name

\* where the base name of a path starts
RECURSIVE BaseStart(_, _)
BaseStart(file, k) ==
    IF k = 0 \/ file[k] = "/" THEN k + 1 ELSE BaseStart(file, k - 1)

\* os.path.basename(file)
Basename(file) == SubSeq(file, BaseStart(file, Len(file)), Len(file))

\* the entry a path names
EntryOf(file) == CHOOSE e \in directory : PathOf(e) = file

\* os.path.isfile(file)
IsFile(file) == EntryOf(file).isfile

Prefixes ==
    { <<"C", "T">>, <<"R", "D">>, <<"R", "P">>, <<"R", "S">>, <<"R", "T">> }

\* name[0:2]
FirstTwo(name) == SubSeq(name, 1, IF Len(name) < 2 THEN Len(name) ELSE 2)

\* os.path.basename(file)[0:2].upper() in ['CT', 'RD', 'RP', 'RS', 'RT']
PrefixMatches(name) == Upper(FirstTwo(name)) \in Prefixes

InspectedAny(file) == TRUE

\* the condition under which a file is given to pydicom.dcmread
Inspected(file) == IsFile(file) /\ PrefixMatches(Basename(file))

\* pydicom.dcmread(file) of a readable file: the dataset, which knows the
\* file it was read from
Dcmread(file) == [filename |-> file, Modality |-> EntryOf(file).Modality]

\* the keys of the two dictionaries: an int for a CT image, a str otherwise
CtKey(n) == [int |-> TRUE, n |-> n, s |-> ""]

LabelKey(label) == [int |-> FALSE, n |-> 0, s |-> label]

PutIfAbsent(dict, key, value) ==
    [k \in DOMAIN dict \cup {key} |-> IF k \in DOMAIN dict THEN dict[k] ELSE value]

\* dict[key] = value
Put(dict, key, value) ==
    [k \in DOMAIN dict \cup {key} |-> IF k = key THEN value ELSE dict[k]]

StoreDatasetOnly(st, key, read_file, file) ==
    [st EXCEPT !.read_data_dict = Put(@, key, read_file)]

\* read_data_dict[key] = read_file; file_names_dict[key] = file
StoreBoth(st, key, read_file, file) ==
    [st EXCEPT !.read_data_dict = Put(@, key, read_file),
               !.file_names_dict = Put(@, key, file)]

NextKeyBy2(n) == n + 2

\* i += 1
NextKey(n) == n + 1

SkipCounting(st) == [st EXCEPT !.i = @ + 1]

\* except: print('ERROR: Cannot read file ' + file)
Skip(st) == st

\* the else branch of the try: the dataset is filed by its Modality
Classify(st, read_file, file) ==
    CASE read_file.Modality = "CT" ->
             [StoreBoth(st, CtKey(st.i), read_file, file)
                 EXCEPT !.i = NextKey(@)]
      [] read_file.Modality = "RTSTRUCT" ->
             StoreBoth(st, LabelKey("rtss"), read_file, file)
      [] read_file.Modality = "RTDOSE" ->
             StoreBoth(st, LabelKey("rtdose"), read_file, file)
      [] read_file.Modality = "RTPLAN" ->
             StoreBoth(st, LabelKey("rtplan"), read_file, file)
      [] OTHER -> st

\* one iteration of the for loop, on the locals of get_datasets
Visit(st, file) ==
    IF ~Inspected(file) THEN st
    ELSE LET tried == [st EXCEPT !.read_calls = Append(@, file)]
         IN  IF ~EntryOf(file).readable THEN Skip(tried)
             ELSE Classify(tried, Dcmread(file), file)

\* the locals before the loop
Locals0 ==
    [i |-> 0, read_data_dict |-> <<>>, file_names_dict |-> <<>>,
     read_calls |-> <<>>]

\* the for loop over a list of paths
RECURSIVE VisitAll(_, _)
VisitAll(st, files) ==
    IF Len(files) = 0 THEN st
    ELSE VisitAll(Visit(st, Head(files)), Tail(files))

\* the locals as they are now
Locals ==
    [i |-> i_ct, read_data_dict |-> read_data_dict,
     file_names_dict |-> file_names_dict, read_calls |-> read_calls]

SetLocals(st) ==
    /\ i_ct' = st.i
    /\ read_data_dict' = st.read_data_dict
    /\ file_names_dict' = st.file_names_dict
    /\ read_calls' = st.read_calls

\* the directories of at most max entries
Directories(max) == { d \in SUBSET Catalog : Cardinality(d) <= max }

\* the orders in which glob.glob may list a directory
GlobLists(d) ==
    { f \in [1..Cardinality(d) -> { PathOf(e) : e \in d }] :
          \A x, y \in 1..Cardinality(d) : x # y => f[x] # f[y] }

\* lines 39-46: the dictionaries are created, the directory is listed and
\* sorted; a TypeError of natural_sort ends the call
GetDatasetsSort ==
    /\ disc_pc = "idle"
    /\ LET sorted_ == NaturalSort(glob_list)
       IN  /\ disc_pc' = IF sorted_.raised = "none" THEN "loop" ELSE "raised"
           /\ dcm_files' = sorted_.list
    /\ pos' = 1
    /\ SetLocals(Locals0)
    /\ UNCHANGED <<jobVars, output_dir, csv_dir, tar_file, calls, sortVars,
                   directory, glob_list>>

\* lines 49-69: one iteration of the loop
GetDatasetsVisit ==
    /\ disc_pc = "loop"
    /\ pos <= Len(dcm_files)
    /\ SetLocals(Visit(Locals, dcm_files[pos]))
    /\ pos' = pos + 1
    /\ UNCHANGED <<jobVars, output_dir, csv_dir, tar_file, calls, sortVars,
                   directory, glob_list, dcm_files, disc_pc>>

\* line 71: return read_data_dict, file_names_dict
GetDatasetsReturn ==
    /\ disc_pc = "loop"
    /\ pos > Len(dcm_files)
    /\ disc_pc' = "done"
    /\ UNCHANGED <<jobVars, output_dir, csv_dir, tar_file, calls, sortVars,
                   directory, glob_list, dcm_files, pos, i_ct, read_data_dict,
                   file_names_dict, read_calls>>

NextDisc == GetDatasetsSort \/ GetDatasetsVisit \/ GetDatasetsReturn

\* get_datasets is given any directory of at most MaxFiles entries, listed
\* by glob in any order
InitDirectories ==
    /\ InitJobs
    /\ output_dir /\ csv_dir
    /\ InitSort
    /\ directory \in Directories(MaxFiles)
    /\ glob_list \in GlobLists(directory)
    /\ dcm_files = <<>>
    /\ pos = 0
    /\ i_ct = 0
    /\ read_data_dict = <<>>
    /\ file_names_dict = <<>>
    /\ read_calls = <<>>
    /\ disc_pc = "idle"

SpecDisc == InitDirectories /\ [][NextDisc]_vars

----------------------------------------------------------------------------
(* What the claims speak of *)

Falsy(r) == r \in {"False", "None"}

\* job j's start() begins with this step (its first statement runs)
Starts(j) == pc[j] = "constructed" /\ pc'[j] # "constructed"

\* job j's start() ends with this step
Ends(j) == pc[j] # "done" /\ pc'[j] = "done"

\* s is a prefix of t
IsPrefix(s, t) == Len(s) <= Len(t) /\ SubSeq(t, 1, Len(s)) = s

Occurs(e, seq) == \E i \in 1..Len(seq) : seq[i] = e

\* the three reports the claims name, in order
AllReports ==
    << <<"Checking dataset...", 40>>, <<"Calculating DVH...", 60>>,
       <<"Exporting DVH to CSV...", 90>> >>

\* the reports of a run stopped before the export
Reports40And60 == SubSeq(AllReports, 1, 2)

----------------------------------------------------------------------------
(* C1: a job whose readiness check failed *)

----------------------------------------------------------------------------
(* C2: the store after start() *)

\* C2 as stated: when start() on a ready job ends Completed or Cancelled,
\* the store is empty afterwards.
C2_StoreEmptyAfter ==
    [][\A j \in Jobs :
        (Ends(j) /\ ready[j] /\ state'[j] \in {"Completed", "Cancelled"}) =>
            store' = Cleared]_vars

----------------------------------------------------------------------------
(* C3: the flag is set when start() is called *)

\* C3: if the flag is set when start() is called on a ready job, start()
\* clears the store, reports no progress, calls neither the DVH collaborator
\* nor the CSV writer, raises nothing, and ends Cancelled returning False.
C3_CancelledAtStart ==
    [][\A j \in Jobs :
        (Starts(j) /\ ready[j] /\ interrupt_flag[j]) =>
            /\ Ends(j)
            /\ store' = Cleared
            /\ progress'[j] = <<>>
            /\ trace'[j] = <<"is_set=True", "clear">>
            /\ raised'[j] = "none"
            /\ state'[j] = "Cancelled"
            /\ ret'[j] = "False"
            /\ UNCHANGED <<csv_dir, tar_file, calls>>]_vars

\* a ready job was cancelled before it reported anything
C3_Witness ==
    \E j \in Jobs :
        /\ ready[j] /\ pc[j] = "done" /\ state[j] = "Cancelled"
        /\ progress[j] = <<>>

----------------------------------------------------------------------------
(* C4: the flag is set while the DVH computation runs *)

\* C4: if the flag becomes set between the two checkpoints and the
\* computation returns normally, start() clears the store, does not report
\* 90, makes no CSV directory and appends no row, and ends Cancelled
\* returning False, as at the first checkpoint.
C4_CancelledAfterCalc ==
    [][\A j \in Jobs :
        (pc[j] = "checkpoint2" /\ pc'[j] # "checkpoint2" /\ interrupt_flag[j]) =>
            /\ Ends(j)
            /\ store' = Cleared
            /\ progress'[j] = Reports40And60
            /\ trace'[j] = <<"is_set=False", "get_thickness_dict", "calc_dvhs",
                             "is_set=True", "clear">>
            /\ raised'[j] = "none"
            /\ state'[j] = "Cancelled"
            /\ ret'[j] = "False"
            /\ UNCHANGED <<csv_dir, tar_file, calls>>]_vars

\* a job was cancelled at the second checkpoint, after a computation that
\* returned a mapping with rows to write
C4_Witness ==
    \E j \in Jobs :
        /\ state[j] = "Cancelled" /\ progress[j] = Reports40And60
        /\ calc_exc[j] = "none"
        /\ Occurs("calc_dvhs", trace[j])

----------------------------------------------------------------------------
(* C5: a type error in the try block *)

\* C5: if the thickness derivation or the DVH collaborator fails with a
\* type error, the job ends Failed without raising: start() returns a falsy
\* value, 90 is not reported, the CSV file and directory stay as they were.
C5_TypeErrorFails ==
    [][\A j \in Jobs :
        (pc[j] = "calc" /\ calc_exc'[j] = "TypeError") =>
            /\ Ends(j)
            /\ state'[j] = "Failed"
            /\ raised'[j] = "none"
            /\ Falsy(ret'[j])
            /\ progress'[j] = Reports40And60
            /\ ~Occurs("mkdir", trace'[j])
            /\ ~Occurs("dvh2csv", trace'[j])
            /\ UNCHANGED <<csv_dir, tar_file, calls>>]_vars

\* the thickness derivation failed with a type error, after another job
\* had written the file
C5_Witness ==
    \E j \in Jobs :
        /\ calc_exc[j] = "TypeError" /\ pc[j] = "done"
        /\ ~Occurs("calc_dvhs", trace[j])
        /\ tar_file.exists

----------------------------------------------------------------------------
(* C6: start() never raises *)

\* C6 as stated: start() never raises to its caller, whatever step fails
\* before the export; it returns a falsy value. Stated for a job that runs
\* alone (no other job is constructed before it ends).
C6_NeverRaises ==
    \A j \in Jobs :
        (pc[j] = "done" /\ \A k \in Jobs \ {j} : pc[k] = "none") =>
            raised[j] = "none" /\ Falsy(ret[j])

----------------------------------------------------------------------------
(* C7, C8, C9: the file after a sequence of dvh2csv calls *)

\* the number of fields of a line
Width(line) == 1 + Len(line.fields)

Returned(c) == c.raised = "none"

\* C7 as stated: starting from no file, after any sequence of calls every
\* data row of the file has as many fields as the header row the first
\* call wrote.
C7_RowsMatchHeader ==
    \A i \in 2..Len(tar_file.lines) :
        Width(tar_file.lines[i]) = Width(tar_file.lines[1])

\* C8: starting from no file, once a call has returned the file holds one
\* header row, its first line; a call that finds the file writes no header.
C8_OneHeader ==
    /\ tar_file.exists <=> \E i \in 1..Len(calls) : Returned(calls[i])
    /\ tar_file.exists =>
           /\ Len(tar_file.lines) >= 1
           /\ tar_file.lines[1].kind = "header"
           /\ tar_file.lines[1].index = "Patient ID"
           /\ \A i \in 2..Len(tar_file.lines) :
                  /\ tar_file.lines[i].kind = "row"
                  /\ tar_file.lines[i].index \in PatientIds
    /\ \A i \in 1..Len(calls) :
           (Returned(calls[i]) /\ calls[i].found) =>
               LET last == IF i < Len(calls) THEN calls[i + 1].before
                           ELSE Len(tar_file.lines)
               IN  last = calls[i].before + Len(calls[i].rois)

\* two calls have returned, the second found the file and added rows
C8_Witness ==
    /\ Len(calls) = 2
    /\ Returned(calls[1]) /\ Returned(calls[2])
    /\ ~calls[1].found /\ calls[2].found
    /\ Len(calls[2].rois) > 0

\* C9: a call leaves the lines of the file as they are and in place; a call
\* that returns adds after them one data row per ROI record, in the order
\* of the records, each starting with the call's patient ID (after the
\* header when it made the file); a call that raises adds nothing.
C9_AppendOnly ==
    [][Len(calls') = Len(calls) + 1 =>
        LET c   == calls'[Len(calls')]
            old == tar_file.lines
            new == tar_file'.lines
            n   == Len(c.rois)
        IN  /\ IsPrefix(old, new)
            /\ ~Returned(c) => tar_file' = tar_file
            /\ Returned(c) =>
                   /\ Len(new) = Len(old) + n + (IF c.found THEN 0 ELSE 1)
                   /\ \A k \in 1..n :
                          LET line == new[Len(new) - n + k]
                          IN  /\ line.kind = "row"
                              /\ line.index = c.patient_id
                              /\ line.fields[1] = c.rois[k]]_vars

\* a call for another patient has added two rows after the rows of the
\* first call
C9_Witness ==
    /\ Len(calls) = 2
    /\ Returned(calls[1]) /\ Returned(calls[2])
    /\ Len(calls[1].rois) > 0 /\ Len(calls[2].rois) = 2
    /\ calls[1].patient_id # calls[2].patient_id
    /\ Len(tar_file.lines) = 1 + Len(calls[1].rois) + 2

----------------------------------------------------------------------------
(* C10: the progress reports of one run *)

\* C10: the reports of one start() on a ready job are a prefix of
\* <(Checking dataset..., 40), (Calculating DVH..., 60), (Exporting DVH to
\* CSV..., 90)>, and 90 is reported only after the computation returned
\* without a type error and the flag was found unset at the second
\* checkpoint.
C10_ProgressPrefix ==
    \A j \in Jobs :
        /\ IsPrefix(progress[j], AllReports)
        /\ Len(progress[j]) = 3 =>
               /\ calc_exc[j] = "none"
               /\ IsPrefix(<<"is_set=False", "get_thickness_dict", "calc_dvhs",
                             "is_set=False">>, trace[j])

\* a job has reported 40, 60 and 90
C10_Witness ==
    \E j \in Jobs : progress[j] = AllReports /\ state[j] = "Completed"

----------------------------------------------------------------------------
(* C11: the return value of start() *)

\* C11 as stated: start() returns True when the export succeeded (rows were
\* appended), so the return value alone tells Completed from NotReady,
\* Cancelled and Failed.
C11_ReturnTellsSuccess ==
    \A j \in Jobs :
        state[j] = "Completed" =>
            /\ ret[j] = "True"
            /\ \A k \in Jobs :
                   state[k] \in {"NotReady", "Cancelled", "Failed"} =>
                       ret[k] # ret[j]

----------------------------------------------------------------------------
(* C17: the order natural_sort gives *)

\* where a name stands in a list of different names
IndexIn(name, list) == CHOOSE k \in 1..Len(list) : list[k] = name

\* sorted_ holds the names of given, each once, in the order of Less, and
\* names that are not less than one another stand as they stood in given
StableOrderOf(sorted_, given) ==
    /\ Len(sorted_) = Len(given)
    /\ \A k \in 1..Len(given) : \E m \in 1..Len(sorted_) : sorted_[m] = given[k]
    /\ \A k, m \in 1..Len(sorted_) :
           k < m =>
               /\ Less(sorted_[m], sorted_[k]) = "False"
               /\ Less(sorted_[k], sorted_[m]) = "False" =>
                      IndexIn(sorted_[k], given) < IndexIn(sorted_[m], given)

CT1 == <<"C", "T", "1", ".", "d", "c", "m">>
CT2 == <<"C", "T", "2", ".", "d", "c", "m">>
CT10 == <<"C", "T", "1", "0", ".", "d", "c", "m">>

\* C17 as stated: whatever names natural_sort is given, the comparison of
\* any two of them is defined, the call returns, and the returned list holds
\* the same names ordered run by run (digit runs as integers, other runs as
\* lower-cased text, a strict prefix first) with names of equal keys in their
\* input order; CT1.dcm, CT10.dcm, CT2.dcm come out as CT1, CT2, CT10.
C17_NaturalOrder ==
    sort_result # NotSorted =>
        /\ \A x, y \in 1..Len(file_list) :
               Less(file_list[x], file_list[y]) \in {"True", "False"}
        /\ sort_result.raised = "none"
        /\ StableOrderOf(sort_result.list, file_list)
        /\ file_list = <<CT1, CT10, CT2>> => sort_result.list = <<CT1, CT2, CT10>>

----------------------------------------------------------------------------
(* C12 .. C16: get_datasets *)

\* the entries that are readable, prefix-matching regular files of a modality
Readable(modality) ==
    { e \in directory :
          /\ e.isfile /\ e.readable /\ e.Modality = modality
          /\ Upper(FirstTwo(e.name)) \in Prefixes }

IsCtPath(file) == EntryOf(file) \in Readable("CT")

\* the entries the codec cannot read although they pass the filter
Unreadable ==
    { e \in directory :
          e.isfile /\ ~e.readable /\ Upper(FirstTwo(e.name)) \in Prefixes }

\* C12: when get_datasets has returned, the int keys of both dictionaries
\* are exactly 0..n-1, n being the number of readable, prefix-matching
\* regular files of Modality CT, and key k holds the k-th of these files in
\* natural-sort order: skipped files neither take a key nor leave a gap.
C12_CtKeysContiguous ==
    disc_pc = "done" =>
        LET n  == Cardinality(Readable("CT"))
            ct == SelectSeq(dcm_files, IsCtPath)
        IN  /\ StableOrderOf(dcm_files, glob_list)
            /\ Len(ct) = n
            /\ { k \in DOMAIN file_names_dict : k.int } = { CtKey(m) : m \in 0..(n - 1) }
            /\ { k \in DOMAIN read_data_dict : k.int } = { CtKey(m) : m \in 0..(n - 1) }
            /\ \A m \in 0..(n - 1) :
                   /\ file_names_dict[CtKey(m)] = ct[m + 1]
                   /\ read_data_dict[CtKey(m)].filename = ct[m + 1]

\* a returned call with two CT images after a skipped file that passed the
\* filter (unreadable, or of another modality)
C12_Witness ==
    /\ disc_pc = "done"
    /\ Cardinality(Readable("CT")) = 2
    /\ \E p, q \in 1..Len(dcm_files) :
           /\ p < q
           /\ dcm_files[p] \in { read_calls[c] : c \in 1..Len(read_calls) }
           /\ ~IsCtPath(dcm_files[p])
           /\ IsCtPath(dcm_files[q])
           /\ file_names_dict[CtKey(0)] = dcm_files[q]

Labels == {"rtss", "rtdose", "rtplan"}

ModalityOf(k) ==
    CASE k.int -> "CT"
      [] k.s = "rtss" -> "RTSTRUCT"
      [] k.s = "rtdose" -> "RTDOSE"
      [] k.s = "rtplan" -> "RTPLAN"

\* C13: at every iteration of the loop and after the return, the two
\* dictionaries have the same keys, the dataset under a key was read from the
\* path under that key, every key is an int from 0 up or one of rtss,
\* rtdose, rtplan, and every key comes from a file of the key's modality, so
\* a file of any other modality adds none.
C13_ParallelMappings ==
    disc_pc \in {"loop", "done"} =>
        /\ DOMAIN read_data_dict = DOMAIN file_names_dict
        /\ \A k \in DOMAIN read_data_dict :
               /\ read_data_dict[k].filename = file_names_dict[k]
               /\ (k.int /\ k.n \in Nat /\ k.s = "") \/ (~k.int /\ k.s \in Labels)
               /\ read_data_dict[k].Modality = ModalityOf(k)
               /\ EntryOf(file_names_dict[k]).Modality = ModalityOf(k)

\* a returned call that read a CT image, a structure set and a file of
\* another modality
C13_Witness ==
    /\ disc_pc = "done"
    /\ DOMAIN file_names_dict = {CtKey(0), LabelKey("rtss")}
    /\ \E c \in 1..Len(read_calls) : EntryOf(read_calls[c]).Modality = "MR"

IsOfModality(modality) ==
    [file \in { PathOf(e) : e \in directory } |-> EntryOf(file) \in Readable(modality)]

\* the readable, prefix-matching files of a modality, in sorted order
SortedOf(modality) ==
    LET is == IsOfModality(modality)
        Pick(file) == is[file]
    IN  SelectSeq(dcm_files, Pick)

LabelOf(modality) ==
    CASE modality = "RTSTRUCT" -> "rtss"
      [] modality = "RTDOSE" -> "rtdose"
      [] modality = "RTPLAN" -> "rtplan"

\* C14: when get_datasets has returned and two or more readable,
\* prefix-matching files report the same modality among RTSTRUCT, RTDOSE and
\* RTPLAN, both dictionaries hold under that modality's label the one that is
\* last in natural-sort order, and no key of either holds an earlier one.
C14_LastOneWins ==
    disc_pc = "done" =>
        /\ StableOrderOf(dcm_files, glob_list)
        /\ \A modality \in {"RTSTRUCT", "RTDOSE", "RTPLAN"} :
               LET files == SortedOf(modality)
                   last  == files[Len(files)]
                   key   == LabelKey(LabelOf(modality))
               IN  Len(files) >= 2 =>
                       /\ key \in DOMAIN file_names_dict
                       /\ key \in DOMAIN read_data_dict
                       /\ file_names_dict[key] = last
                       /\ read_data_dict[key] = [filename |-> last, Modality |-> modality]
                       /\ \A k \in DOMAIN file_names_dict, m \in 1..(Len(files) - 1) :
                              file_names_dict[k] # files[m]
                       /\ \A k \in DOMAIN read_data_dict, m \in 1..(Len(files) - 1) :
                              read_data_dict[k].filename # files[m]

\* a returned call on a directory with two readable structure sets
C14_Witness ==
    /\ disc_pc = "done"
    /\ Len(SortedOf("RTSTRUCT")) = 2
    /\ LabelKey("rtss") \in DOMAIN file_names_dict

IsReadablePath(file) == EntryOf(file) \notin Unreadable

\* C15: a file the codec cannot read is skipped and the loop goes on: at
\* every iteration and after the return, the dictionaries and the CT counter
\* are what the loop gives on the files seen so far without the unreadable
\* ones, no key holds an unreadable file, and after the return every file
\* that passes the filter has been given to the codec.
C15_UnreadableSkipped ==
    disc_pc \in {"loop", "done"} =>
        LET seen   == SubSeq(dcm_files, 1, pos - 1)
            absent == VisitAll(Locals0, SelectSeq(seen, IsReadablePath))
        IN  /\ read_data_dict = absent.read_data_dict
            /\ file_names_dict = absent.file_names_dict
            /\ i_ct = absent.i
            /\ \A k \in DOMAIN file_names_dict :
                   EntryOf(file_names_dict[k]) \notin Unreadable
            /\ \A k \in DOMAIN read_data_dict :
                   EntryOf(read_data_dict[k].filename) \notin Unreadable
            /\ disc_pc = "done" =>
                   \A e \in directory :
                       e.isfile /\ Upper(FirstTwo(e.name)) \in Prefixes =>
                           \E c \in 1..Len(read_calls) : read_calls[c] = PathOf(e)

\* a returned call in which an unreadable file came before a CT image that
\* was read and filed under key 0
C15_Witness ==
    /\ disc_pc = "done"
    /\ \E p, q \in 1..Len(dcm_files) :
           /\ p < q
           /\ EntryOf(dcm_files[p]) \in Unreadable
           /\ IsCtPath(dcm_files[q])
           /\ CtKey(0) \in DOMAIN file_names_dict
           /\ file_names_dict[CtKey(0)] = dcm_files[q]

\* a regular file whose name starts, upper-cased, with CT, RD, RP, RS or RT
Admissible(file) ==
    /\ EntryOf(file).isfile
    /\ Len(EntryOf(file).name) >= 2
    /\ <<UpperChar(EntryOf(file).name[1]), UpperChar(EntryOf(file).name[2])>>
           \in Prefixes

\* C16: at every iteration and after the return, every path given to the
\* codec and every path or dataset in the dictionaries is a regular file
\* whose base name starts, upper-cased, with CT, RD, RP, RS or RT.
C16_OnlyFilteredFilesRead ==
    disc_pc \in {"loop", "done"} =>
        /\ \A c \in 1..Len(read_calls) : Admissible(read_calls[c])
        /\ \A k \in DOMAIN file_names_dict : Admissible(file_names_dict[k])
        /\ \A k \in DOMAIN read_data_dict : Admissible(read_data_dict[k].filename)

\* a returned call on a directory holding notes.txt (with CT content), a
\* sub-directory named CTd and a file that was read
C16_Witness ==
    /\ disc_pc = "done"
    /\ \E e \in directory : ~e.isfile /\ e.name = <<"C", "T", "d">>
    /\ \E e \in directory : e.name[1] = "n" /\ e.readable /\ e.Modality = "CT"
    /\ Len(read_calls) = 1

----------------------------------------------------------------------------
(* C18: the columns of one dvh2csv call *)

\* the positions 0, 10, 20, ... sampled from the bins of one ROI
SampledPositions(dvh) == { q \in 0..(Len(dvh.counts) - 1) : q % 10 = 0 }

\* M: the largest position sampled over all ROIs of the call (0 when no
\* bin is sampled at all, for which the code writes the one label 0cGy)
LargestSampled(dict_dvh) ==
    LET all == UNION { SampledPositions(dict_dvh[k]) : k \in 1..Len(dict_dvh) }
    IN  IF all = {} THEN 0 ELSE CHOOSE m \in all : \A q \in all : q <= m

\* the header line of M/10 + 1 dose columns labelled 0cGy, 10cGy, ...
ExpectedHeader(cols) ==
    [kind |-> "header", index |-> "Patient ID",
     fields |-> <<"ROI", "Volume (mL)">>
                    \o [k \in 1..cols |-> ToString(10 * (k - 1)) \o "cGy"]]

\* the line of one ROI: name, volume, its sampled bins (to 2 digits) and 0
\* in each remaining column
ExpectedRow(dvh, patient_id, cols) ==
    [kind |-> "row", index |-> patient_id,
     fields |-> <<dvh.name, Round2(dvh.volume)>>
                    \o [k \in 1..cols |->
                            IF 10 * (k - 1) < Len(dvh.counts)
                            THEN Round2(dvh.counts[10 * (k - 1) + 1])
                            ELSE 0]]

\* C18 as stated: a dvh2csv call over any mapping of ROI records, with bin
\* sequences long, short or empty, and an existing directory, returns and
\* appends (after the header, if the file is new) one line per ROI, each of
\* patient ID, name, volume and M/10 + 1 dose columns: the ROI's bins at 0,
\* 10, 20, ... and 0 in the remaining columns; the labels are 0cGy, 10cGy, ...
C18_ColumnsOfOneCall ==
    [][\A d \in DvhDicts(MaxRois), p \in PatientIds :
           (csv_dir /\ Dvh2csv(d, p)) =>
               LET cols == LargestSampled(d) \div 10 + 1
               IN  /\ calls'[Len(calls')].raised = "none"
                   /\ tar_file'.exists
                   /\ tar_file'.lines =
                          tar_file.lines
                              \o (IF tar_file.exists THEN <<>>
                                  ELSE <<ExpectedHeader(cols)>>)
                              \o [k \in 1..Len(d) |-> ExpectedRow(d[k], p, cols)]]_vars

----------------------------------------------------------------------------
(* C19: the flag set after the second checkpoint *)

\* the reads of the flag that job j's trace records
FlagReads(j) ==
    Cardinality({ i \in 1..Len(trace[j]) :
                      trace[j][i] \in {"is_set=True", "is_set=False"} })

\* C19: when the last part of start() runs with the flag set (it was set
\* after the second checkpoint found it unset), the flag is not read again:
\* the 90% step is reported after 40 and 60, the store is left as it is and
\* clear() is not called, start() does not end in Cancelled, and if no step
\* of the export raises, dvh2csv has been called with the patient of the
\* store, the rows of the job's ROIs are in the file and the job is Completed.
C19_FlagAfterCheckpoint2 ==
    [][\A j \in Jobs :
           (pc[j] = "export" /\ interrupt_flag[j] /\ pc'[j] = "done") =>
               /\ progress'[j] = AllReports
               /\ store' = store
               /\ ~Occurs("clear", trace'[j])
               /\ trace'[j][Len(trace[j])] = "is_set=False"
               /\ SubSeq(trace'[j], 1, Len(trace[j])) = trace[j]
               /\ \A i \in (Len(trace[j]) + 1)..Len(trace'[j]) :
                      trace'[j][i] \in {"mkdir", "dvh2csv"}
               /\ state'[j] \in {"Completed", "Raised"}
               /\ ret'[j] # "False"
               /\ raised'[j] = "none" =>
                      /\ state'[j] = "Completed"
                      /\ Len(calls') = Len(calls) + 1
                      /\ calls'[Len(calls')].patient_id = store.id
                      /\ calls'[Len(calls')].raised = "none"
                      /\ Len(calls'[Len(calls')].rois) = Len(raw_dvh[j])
                      /\ Len(tar_file'.lines) >= calls'[Len(calls')].before + Len(raw_dvh[j])
                      /\ \A k \in 1..Len(raw_dvh[j]) :
                             LET line == tar_file'.lines[Len(tar_file'.lines)
                                                            - Len(raw_dvh[j]) + k]
                             IN  /\ line.kind = "row"
                                 /\ line.index = store.id
                                 /\ line.fields[1] = raw_dvh[j][k].name]_vars

\* a job is Completed with its flag set: the flag was set after the second
\* checkpoint, the row was appended and the store still holds the patient
C19_Witness ==
    \E j \in Jobs :
        /\ state[j] = "Completed"
        /\ interrupt_flag[j]
        /\ FlagReads(j) = 2
        /\ ~Occurs("is_set=True", trace[j])
        /\ store # Cleared
        /\ \E i \in 1..Len(tar_file.lines) :
               tar_file.lines[i].kind = "row" /\ tar_file.lines[i].index = store.id

----------------------------------------------------------------------------
(* C20: the shared store is read when start() runs *)

\* C20: the patient ID start() gives dvh2csv is the one the shared store
\* holds at that moment, whichever job loaded or cleared it since this job
\* was constructed; it is the ID of the job's own files whenever the jobs
\* ran one after the other, each ending before the next was constructed.
C20_StoreReadLive ==
    [][\A j \in Jobs :
           (pc[j] = "export" /\ pc'[j] = "done" /\ Len(calls') = Len(calls) + 1) =>
               /\ calls'[Len(calls')].patient_id = store.id
               /\ job_patient_id'[j] = store.id
               /\ \A i \in (calls'[Len(calls')].before + 1)..Len(tar_file'.lines) :
                      tar_file'.lines[i].kind = "row" =>
                          tar_file'.lines[i].index = store.id
               /\ serial =>
                      /\ store = Load(own_files[j])
                      /\ job_patient_id'[j] = own_files[j].id]_vars

\* the jobs overlapped, and a Completed job appended a row under the patient
\* ID of the other job's files, not of its own
C20_Witness ==
    /\ ~serial
    /\ \E j \in Jobs, k \in Jobs :
           /\ j # k
           /\ state[j] = "Completed"
           /\ job_patient_id[j] = own_files[k].id
           /\ job_patient_id[j] # own_files[j].id
           /\ \A i \in 1..Len(tar_file.lines) :
                  tar_file.lines[i].kind = "row" =>
                      tar_file.lines[i].index = own_files[k].id
           /\ \E i \in 1..Len(tar_file.lines) : tar_file.lines[i].kind = "row"

====
